---- MODULE Spec2Model ----
(***************************************************************************)
(* A model of adv_watch.py: one invocation of main() is a linear pipeline  *)
(* load_state -> discover filing -> scrape signature date -> save_state    *)
(* -> classify -> (CHANGED.txt).  The state file and CHANGED.txt persist   *)
(* between invocations; everything else is local to one invocation.        *)
(***************************************************************************)
EXTENDS Integers, Sequences, FiniteSets, TLC

\* ------------------------------------------------------------------ bounds
\* invocations of main() started in one behaviour, one at a time
MaxRuns == 3
\* invocations of main() started in one behaviour when they may overlap
MaxOverlapRuns == 2
\* invocations of main() started in one behaviour that begins with a state
\* file left by an earlier installation
MaxLaterRuns == 2

\* the OS processes that may run main(): two, so that two invocations can overlap
Procs == {"A", "B"}

\* ------------------------------------------------------ program constants
CRD == 307151
FIRM_SUMMARY_URL == "https://adviserinfo.sec.gov/firm/summary/307151"

\* ------------------------------------------------------------ value space
\* Python's None (also what f"{None}" prints in CHANGED.txt)
NoneV == "None"
\* the empty dict {}
EmptyDict == [k \in {} |-> NoneV]
\* dict.get(key, default)
Get(d, k, default) == IF k \in DOMAIN d THEN d[k] ELSE default

Flngs == {"F1", "F2"}
Dates == {"01/15/2024", "02/20/2024"}

SummaryHost == "https://adviserinfo.sec.gov"
FilesHost == "https://files.adviserinfo.sec.gov"
\* a URL, as far as the program looks at it: its prefix and the two query
\* parameters (NoneV: parameter absent, "": parameter present with no value)
NoUrl == [host |-> NoneV, org |-> NoneV, flng |-> NoneV]

\* ------------------------------------------------------------------ files
\* A file on disk: missing, empty (opened for writing and truncated, nothing
\* written yet), garbage (bytes that are not the text that was written) or
\* holding the value that was written.
MissingFile == [kind |-> "missing", data |-> EmptyDict]
EmptyFile == [kind |-> "empty", data |-> EmptyDict]
GarbageFile == [kind |-> "garbage", data |-> EmptyDict]
JsonFile(d) == [kind |-> "json", data |-> d]
TextFile(d) == [kind |-> "text", data |-> d]

\* load_state(): {} when the file does not exist, else json.loads of its
\* text, which raises JSONDecodeError on text that is not JSON.
load_state(f) ==
  IF f.kind = "missing" THEN [raised |-> FALSE, value |-> EmptyDict]
  ELSE IF f.kind = "json" THEN [raised |-> FALSE, value |-> f.data]
  ELSE [raised |-> TRUE, value |-> EmptyDict]

\* ------------------------------------------------------------ the locator
\* An anchor's href: form "rel" starts with "/", "abs" starts with "http",
\* "other" starts with neither; org, flng as in a URL.
Href(form, org, flng) == [form |-> form, org |-> org, flng |-> flng]
\* A summary page: its anchors in document order, and an absolute URL that
\* appears in the markup outside any anchor (NoUrl: none).
Page(anchors, raw) == [anchors |-> anchors, raw |-> raw]

HasBothParams(h) == h.flng # NoneV /\ h.org # NoneV

RECURSIVE ScanAnchors(_)
\* the for-loop of extract_latest_viewform_link: the first anchor that has
\* both parameters and starts with "/" or "http"
ScanAnchors(anchors) ==
  IF anchors = <<>> THEN NoUrl
  ELSE LET a == Head(anchors) IN
    IF HasBothParams(a) /\ a.form = "rel"
      THEN [host |-> SummaryHost, org |-> a.org, flng |-> a.flng]
    ELSE IF HasBothParams(a) /\ a.form = "abs"
      THEN [host |-> FilesHost, org |-> a.org, flng |-> a.flng]
    ELSE ScanAnchors(Tail(anchors))

\* the fallback regex: an absolute URL with ORG_PK=<digits> and
\* FLNG_PK=<alphanumerics>, both non-empty
RegexFallback(page) ==
  IF page.raw # NoUrl /\ page.raw.org \notin {NoneV, ""}
     /\ page.raw.flng \notin {NoneV, ""}
  THEN page.raw ELSE NoUrl

extract_latest_viewform_link(page) ==
  LET a == ScanAnchors(page.anchors) IN
  IF a # NoUrl THEN [raised |-> FALSE, value |-> a]
  ELSE LET r == RegexFallback(page) IN
    IF r # NoUrl THEN [raised |-> FALSE, value |-> r]
    ELSE [raised |-> TRUE, value |-> NoUrl]

\* parse_qs drops parameters with blank values, so a blank value reads as None
extract_org_and_flng(url) ==
  LET org == IF url.org = "" THEN NoneV ELSE url.org
      flng == IF url.flng = "" THEN NoneV ELSE url.flng
  IN [raised |-> org = NoneV \/ flng = NoneV, org |-> org, flng |-> flng]

build_signature_url(org_pk, flng_pk) ==
  [host |-> FilesHost, org |-> org_pk, flng |-> flng_pk]

\* the summary pages the site may serve
SummaryPages ==
  { Page(<<Href("rel", "307151001", "F1")>>, NoUrl),
         Page(<<Href("other", "307151001", "F1"), Href("abs", "307151001", "F2")>>, NoUrl),
         Page(<<>>, [host |-> FilesHost, org |-> "307151001", flng |-> "F2"]),
         Page(<<Href("rel", "307151001", NoneV)>>, NoUrl),
         Page(<<Href("rel", "307151001", "")>>, NoUrl) }

\* --------------------------------------------------- the signature extractor
\* The words of the page's text that the date regex matches (month 01-12,
\* day 01-31, four digits of year); "13/45/2024" and plain words do not.
DateShaped(w) == w \in Dates

RECURSIVE FirstDate(_)
FirstDate(text) ==
  IF text = <<>> THEN NoneV
  ELSE IF DateShaped(Head(text)) THEN Head(text)
  ELSE FirstDate(Tail(text))

\* variant: no match yields None instead of raising
extract_filing_date_Silent(text) ==
  [raised |-> FALSE, value |-> FirstDate(text)]

extract_filing_date(text) ==
  LET d == FirstDate(text) IN [raised |-> d = NoneV, value |-> d]

\* the texts the signature page may have
SigTexts ==
  { <<"Filed", "on", d>> : d \in Dates }
  \cup { <<"13/45/2024", "02/20/2024", "01/15/2024">>,
         <<"Signature", "page">>, <<>> }

\* an HTTP exchange: raise_for_status raises unless ok
Responses(bodies) == [ok : BOOLEAN, text : bodies]

\* ------------------------------------------------------------------- state
VARIABLES
  stateFile,     \* adv_watch_state.json
  marker,        \* CHANGED.txt
  clock,         \* the wall clock utc_now() reads, as a tick count
  budget,        \* invocations of main() still to be started
  m,             \* m[p]: the frame of main() in process p (its locals and position)
  obs,           \* obs[p]: what the current invocation of p found at its start, and the file operations it has done
  last,          \* the invocation that ended most recently: how it ended and what it derived
  lastSaved,     \* the mapping written by the most recent save_state that completed
  wfail,         \* whether a write of either file has failed so far
  beforeChanged  \* the entity record found by the most recent run that wrote CHANGED.txt

vars == <<stateFile, marker, clock, budget, m, obs, last, lastSaved, wfail, beforeChanged>>

IdleFrame ==
  [pc |-> "idle", state |-> EmptyDict, prev |-> EmptyDict,
   viewform_url |-> NoUrl, org_pk |-> NoneV, flng_pk |-> NoneV,
   signature_url |-> NoUrl, filing_date |-> NoneV,
   prev_date |-> NoneV, prev_flng |-> NoneV, out |-> NoneV, err |-> NoneV]

NoObs == [file0 |-> MissingFile, marker0 |-> MissingFile, saved0 |-> EmptyDict,
          log |-> <<>>, overlapped |-> FALSE]

NoLast == [ran |-> FALSE, ok |-> FALSE, err |-> NoneV,
           filing_date |-> NoneV, flng_pk |-> NoneV]

\* no state file, no marker file, no invocation running
Init ==
  /\ stateFile = MissingFile
  /\ marker = MissingFile
  /\ clock = 0
  /\ budget = MaxRuns
  /\ m = [p \in Procs |-> IdleFrame]
  /\ obs = [p \in Procs |-> NoObs]
  /\ last = NoLast
  /\ lastSaved = EmptyDict
  /\ wfail = FALSE
  /\ beforeChanged = EmptyDict

\* an uncaught exception ends the process
Raise(p, exc) == m' = [m EXCEPT ![p].pc = "aborted", ![p].err = exc]

Logged(p, op) == [obs EXCEPT ![p].log = Append(@, op)]

Active(p) == m[p].pc # "idle"

\* the process starts: python adv_watch.py, no other invocation running
Start(p) ==
  /\ budget > 0
  /\ \A q \in Procs : ~Active(q)
  /\ budget' = budget - 1
  /\ m' = [m EXCEPT ![p].pc = "load"]
  /\ obs' = [obs EXCEPT ![p] = [file0 |-> stateFile, marker0 |-> marker,
                                saved0 |-> lastSaved, log |-> <<>>,
                                overlapped |-> FALSE]]
  /\ UNCHANGED <<stateFile, marker, clock, last, lastSaved, wfail, beforeChanged>>

\* the process starts whether or not another invocation is running
Spawn(p) ==
  /\ budget > 0
  /\ ~Active(p)
  /\ budget' = budget - 1
  /\ m' = [m EXCEPT ![p].pc = "load"]
  /\ obs' = [q \in Procs |->
               IF q = p
               THEN [file0 |-> stateFile, marker0 |-> marker, saved0 |-> lastSaved,
                     log |-> <<>>, overlapped |-> \E r \in Procs \ {p} : Active(r)]
               ELSE IF Active(q) THEN [obs[q] EXCEPT !.overlapped = TRUE]
               ELSE obs[q]]
  /\ UNCHANGED <<stateFile, marker, clock, last, lastSaved, wfail, beforeChanged>>

\* state = load_state(); prev = state.get("elliott", {})
Load(p) ==
  /\ m[p].pc = "load"
  /\ LET r == load_state(stateFile) IN
       IF r.raised
       THEN Raise(p, "JSONDecodeError")
       ELSE m' = [m EXCEPT ![p].pc = "discover",
                           ![p].state = r.value,
                           ![p].prev = Get(r.value, "elliott", EmptyDict)]
  /\ obs' = Logged(p, "read_state")
  /\ UNCHANGED <<stateFile, marker, clock, budget, last, lastSaved, wfail, beforeChanged>>

\* 1) discover current filing: fetch the summary page, find the link, parse
\* ORG_PK and FLNG_PK from it, build the signature URL
Discover(p) ==
  /\ m[p].pc = "discover"
  /\ \E resp \in Responses(SummaryPages) :
       IF ~resp.ok THEN Raise(p, "HTTPError")
       ELSE LET link == extract_latest_viewform_link(resp.text) IN
         IF link.raised THEN Raise(p, "RuntimeError")
         ELSE LET ids == extract_org_and_flng(link.value) IN
           IF ids.raised THEN Raise(p, "RuntimeError")
           ELSE m' = [m EXCEPT ![p].pc = "scrape",
                               ![p].viewform_url = link.value,
                               ![p].org_pk = ids.org,
                               ![p].flng_pk = ids.flng,
                               ![p].signature_url = build_signature_url(ids.org, ids.flng)]
  /\ UNCHANGED <<stateFile, marker, clock, budget, obs, last, lastSaved, wfail, beforeChanged>>

\* 2) scrape the signature page for the filing date, then read the previous
\* date and filing identifier out of prev
Scrape(p) ==
  /\ m[p].pc = "scrape"
  /\ \E resp \in Responses(SigTexts) :
       IF ~resp.ok THEN Raise(p, "HTTPError")
       ELSE LET d == extract_filing_date(resp.text) IN
         IF d.raised THEN Raise(p, "RuntimeError")
         ELSE m' = [m EXCEPT ![p].pc = "save_open",
                             ![p].filing_date = d.value,
                             ![p].prev_date = Get(m[p].prev, "filing_date", NoneV),
                             ![p].prev_flng = Get(m[p].prev, "flng_pk", NoneV)]
  /\ UNCHANGED <<stateFile, marker, clock, budget, obs, last, lastSaved, wfail, beforeChanged>>

\* variant: the filing identifier is not compared
Changed_DateOnly(prev_date, prev_flng, filing_date, flng_pk) ==
  filing_date # prev_date

\* variant: the date is not compared
Changed_FlngOnly(prev_date, prev_flng, filing_date, flng_pk) ==
  flng_pk # prev_flng

\* changed = (filing_date != prev_date) or (flng_pk != prev_flng)
Changed(prev_date, prev_flng, filing_date, flng_pk) ==
  (filing_date # prev_date) \/ (flng_pk # prev_flng)

\* variant: no first-run case, a missing previous date compares as different
Classify_NoBaseline(prev_date, prev_flng, filing_date, flng_pk) ==
  IF (filing_date # prev_date) \/ (flng_pk # prev_flng) THEN "CHANGED"
  ELSE "UNCHANGED"

\* the change detector of main(): first-run baseline, else changed or not
Classify(prev_date, prev_flng, filing_date, flng_pk) ==
  IF prev_date = NoneV THEN "BASELINE"
  ELSE IF Changed(prev_date, prev_flng, filing_date, flng_pk) THEN "CHANGED"
  ELSE "UNCHANGED"

\* state["elliott"] = {...}: the key is set, every other key of the mapping kept
SetItem(d, key, value) ==
  [k \in DOMAIN d \cup {key} |-> IF k = key THEN value ELSE d[k]]

\* variant: the filing identifier is left out of the record
NewRecord_NoFlng(now, org_pk, flng_pk, filing_date, viewform_url, signature_url) ==
  [last_checked_utc |-> now,
   crd |-> CRD,
   org_pk |-> org_pk,
   filing_date |-> filing_date,
   firm_summary_url |-> FIRM_SUMMARY_URL,
   viewform_url_found |-> viewform_url,
   signature_url_used |-> signature_url]

\* the record main() builds on every run
NewRecord(now, org_pk, flng_pk, filing_date, viewform_url, signature_url) ==
  [last_checked_utc |-> now,
   crd |-> CRD,
   org_pk |-> org_pk,
   flng_pk |-> flng_pk,
   filing_date |-> filing_date,
   firm_summary_url |-> FIRM_SUMMARY_URL,
   viewform_url_found |-> viewform_url,
   signature_url_used |-> signature_url]

\* variant: the state is saved only when something changed
SaveOpen_OnlyIfChanged(p) ==
  /\ m[p].pc = "save_open"
  /\ IF Classify(m[p].prev_date, m[p].prev_flng, m[p].filing_date, m[p].flng_pk) = "UNCHANGED"
     THEN /\ m' = [m EXCEPT ![p].pc = "detect"]
          /\ UNCHANGED <<stateFile, clock, wfail>>
     ELSE /\ clock' = clock + 1
          /\ stateFile' = EmptyFile
          /\ m' = [m EXCEPT ![p].pc = "save_write",
                            ![p].state = SetItem(m[p].state, "elliott",
                               NewRecord(clock + 1, m[p].org_pk, m[p].flng_pk,
                                         m[p].filing_date, m[p].viewform_url,
                                         m[p].signature_url))]
          /\ wfail' = wfail
  /\ UNCHANGED <<marker, budget, obs, last, lastSaved, beforeChanged>>

\* "Always update state": the record is built and save_state opens the state
\* file for writing, which truncates it (Path.write_text); opening may fail
\* (an unwritable file), which leaves the file as it was.
SaveOpen(p) ==
  /\ m[p].pc = "save_open"
  /\ clock' = clock + 1
  /\ LET rec == NewRecord(clock + 1, m[p].org_pk, m[p].flng_pk, m[p].filing_date,
                          m[p].viewform_url, m[p].signature_url)
         new == SetItem(m[p].state, "elliott", rec)
     IN \E opened \in BOOLEAN :
       IF opened
       THEN /\ stateFile' = EmptyFile
            /\ m' = [m EXCEPT ![p].pc = "save_write", ![p].state = new]
            /\ wfail' = wfail
       ELSE /\ stateFile' = stateFile
            /\ m' = [m EXCEPT ![p].pc = "aborted", ![p].state = new,
                              ![p].err = "OSError in save_state"]
            /\ wfail' = TRUE
  /\ UNCHANGED <<marker, budget, obs, last, lastSaved, beforeChanged>>

\* variant: a file that already has content is left alone
Landed_KeepExisting(current, new) ==
  IF current.kind = "empty" THEN {new} ELSE {current}

\* What the file holds after `new` is written from offset 0 over `current`:
\* `new` when the file was still empty; when another process has written since
\* this one truncated the file, `new` if it is at least as long as what is
\* there, else `new` followed by the tail of the longer text, which is not JSON.
Landed(current, new) ==
  IF current.kind = "empty" THEN {new} ELSE {new, GarbageFile}

\* save_state writes the text and closes the file; the write may fail (a full
\* disk), which leaves the truncated file.
SaveWrite(p) ==
  /\ m[p].pc = "save_write"
  /\ \E written \in BOOLEAN :
       IF written
       THEN /\ stateFile' \in Landed(stateFile, JsonFile(m[p].state))
            /\ m' = [m EXCEPT ![p].pc = "detect"]
            /\ obs' = Logged(p, "write_state")
            /\ lastSaved' = m[p].state
            /\ wfail' = wfail
       ELSE /\ stateFile' = stateFile
            /\ Raise(p, "OSError in save_state")
            /\ obs' = obs
            /\ lastSaved' = lastSaved
            /\ wfail' = TRUE
  /\ UNCHANGED <<marker, clock, budget, last, beforeChanged>>

\* variant: previous and current values change places
MarkerText_Swapped(prev_date, filing_date, prev_flng, flng_pk, signature_url) ==
  [previous_date |-> filing_date,
   current_date |-> prev_date,
   previous_flng_pk |-> flng_pk,
   current_flng_pk |-> prev_flng,
   signature_url |-> signature_url]

\* the text of CHANGED.txt, by its fields
MarkerText(prev_date, filing_date, prev_flng, flng_pk, signature_url) ==
  [previous_date |-> prev_date,
   current_date |-> filing_date,
   previous_flng_pk |-> prev_flng,
   current_flng_pk |-> flng_pk,
   signature_url |-> signature_url]

\* the status line printed for a classification
StatusLine(class) ==
  CASE class = "BASELINE" -> "First run baseline stored"
    [] class = "CHANGED" -> "CHANGED"
    [] OTHER -> "NO CHANGE"

\* What a failed Path("CHANGED.txt").write_text leaves: the file as it was
\* (it could not be opened) or the truncated file (the write failed).
MarkerAfterFailure(current) == {current, EmptyFile}

\* first-run baseline, change detection, CHANGED.txt and the status line
Detect(p) ==
  /\ m[p].pc = "detect"
  /\ LET class == Classify(m[p].prev_date, m[p].prev_flng, m[p].filing_date, m[p].flng_pk)
         done == [m EXCEPT ![p].pc = "done", ![p].out = StatusLine(class)]
     IN IF class = "CHANGED"
        THEN \E written \in BOOLEAN :
          IF written
          THEN /\ marker' = TextFile(MarkerText(m[p].prev_date, m[p].filing_date,
                                                m[p].prev_flng, m[p].flng_pk,
                                                m[p].signature_url))
               /\ m' = done
               /\ obs' = [obs EXCEPT ![p].log = @ \o <<"classify", "write_marker">>]
               /\ beforeChanged' = Get(obs[p].file0.data, "elliott", EmptyDict)
               /\ wfail' = wfail
          ELSE /\ marker' \in MarkerAfterFailure(marker)
               /\ Raise(p, "OSError in CHANGED.txt")
               /\ obs' = Logged(p, "classify")
               /\ beforeChanged' = beforeChanged
               /\ wfail' = TRUE
        ELSE /\ m' = done
             /\ obs' = Logged(p, "classify")
             /\ UNCHANGED <<marker, beforeChanged, wfail>>
  /\ UNCHANGED <<stateFile, clock, budget, last, lastSaved>>

\* the process ends: normally after a status line, or by the uncaught exception
Exit(p) ==
  /\ m[p].pc \in {"done", "aborted"}
  /\ last' = [ran |-> TRUE, ok |-> m[p].pc = "done", err |-> m[p].err,
              filing_date |-> m[p].filing_date, flng_pk |-> m[p].flng_pk]
  /\ m' = [m EXCEPT ![p] = IdleFrame]
  /\ obs' = [obs EXCEPT ![p] = NoObs]
  /\ UNCHANGED <<stateFile, marker, clock, budget, lastSaved, wfail, beforeChanged>>

Step(p) ==
  \/ Load(p) \/ Discover(p) \/ Scrape(p) \/ SaveOpen(p) \/ SaveWrite(p)
  \/ Detect(p) \/ Exit(p)

\* at most one invocation at a time (the scheduler's assumption)
Next == \E p \in Procs : Start(p) \/ Step(p)

Spec == Init /\ [][Next]_vars

\* invocations may overlap
NextOverlap == \E p \in Procs : Spawn(p) \/ Step(p)

InitOverlap ==
  /\ stateFile = MissingFile
  /\ marker = MissingFile
  /\ clock = 0
  /\ budget = MaxOverlapRuns
  /\ m = [p \in Procs |-> IdleFrame]
  /\ obs = [p \in Procs |-> NoObs]
  /\ last = NoLast
  /\ lastSaved = EmptyDict
  /\ wfail = FALSE
  /\ beforeChanged = EmptyDict

SpecOverlap == InitOverlap /\ [][NextOverlap]_vars

\* State files a first invocation of this program may find: none, one that is
\* not JSON, a mapping without the entity, and entity records of the shapes the
\* program's variants write (no date; date without filing identifier; complete).
PriorRecords ==
  { [last_checked_utc |-> 0, etag |-> "W/1"],
    [last_checked_utc |-> 0, filing_date |-> NoneV] }
  \cup { [last_checked_utc |-> 0, filing_date |-> d] : d \in Dates }
  \cup { NewRecord(0, "307151001", f, d,
                   [host |-> SummaryHost, org |-> "307151001", flng |-> f],
                   build_signature_url("307151001", f)) : f \in Flngs, d \in Dates }

PriorFiles ==
  {MissingFile, EmptyFile, JsonFile(EmptyDict)}
  \cup { JsonFile([elliott |-> r]) : r \in PriorRecords }
  \cup { JsonFile([elliott |-> r, other |-> [last_checked_utc |-> 0]]) :
           r \in { [last_checked_utc |-> 0, filing_date |-> "01/15/2024"] } }

InitAny ==
  /\ stateFile \in PriorFiles
  /\ marker \in {MissingFile, TextFile(MarkerText("01/15/2024", "02/20/2024", "F1", "F1", build_signature_url("307151001", "F1")))}
  /\ clock = 0
  /\ budget = MaxLaterRuns
  /\ m = [p \in Procs |-> IdleFrame]
  /\ obs = [p \in Procs |-> NoObs]
  /\ last = NoLast
  /\ lastSaved = EmptyDict
  /\ wfail = FALSE
  /\ beforeChanged = EmptyDict

SpecAny == InitAny /\ [][Next]_vars

\* ------------------------------------------------------------ properties
\* the entity record of a mapping: state.get("elliott", {})
Elliott(d) == Get(d, "elliott", EmptyDict)

\* the keys of the record main() writes
RecordKeys ==
  {"last_checked_utc", "crd", "org_pk", "flng_pk", "filing_date",
   "firm_summary_url", "viewform_url_found", "signature_url_used"}

BaselineLine == "First run baseline stored"
StatusLines == {BaselineLine, "CHANGED", "NO CHANGE"}

\* the state file holds no signature for the entity: no file, no "elliott"
\* record, or a record without (or with a null) filing_date
NoStoredSignature(f) ==
  \/ f.kind = "missing"
  \/ f.kind = "json" /\ Get(Elliott(f.data), "filing_date", NoneV) = NoneV

\* the invocation of p came right after one that ended normally
AfterSuccessfulRun(p) == last.ran /\ last.ok

\* p has derived the date and identifier that the invocation before it derived
SameAsPreviousRun(p) ==
  /\ m[p].filing_date # NoneV /\ m[p].filing_date = last.filing_date
  /\ m[p].flng_pk = last.flng_pk

\* C1: a run that starts with no stored signature and runs to its end prints
\* the baseline line, never CHANGED, and leaves CHANGED.txt as it found it
\* (absent or not), whatever date and filing identifier it derives.
C1_NoPriorSignatureIsBaseline ==
  \A p \in Procs :
    (Active(p) /\ m[p].pc # "load" /\ NoStoredSignature(obs[p].file0)) =>
      /\ marker = obs[p].marker0
      /\ m[p].out # "CHANGED"
      /\ (m[p].pc = "done" => m[p].out = BaselineLine)

C1_Witness ==
  \E p \in Procs :
    /\ m[p].pc = "done"
    /\ obs[p].file0.kind = "json"
    /\ "elliott" \in DOMAIN obs[p].file0.data
    /\ "filing_date" \notin DOMAIN Elliott(obs[p].file0.data)
    /\ obs[p].marker0.kind = "text"
    /\ m[p].out = BaselineLine
    /\ m[p].filing_date = "02/20/2024"

\* C2: a successful run that comes right after a successful run and derives
\* the same filing date and filing identifier prints NO CHANGE and leaves
\* CHANGED.txt as it found it, whatever the first run's classification was.
C2_SameSignatureIsUnchanged ==
  \A p \in Procs :
    (m[p].pc = "done" /\ AfterSuccessfulRun(p) /\ SameAsPreviousRun(p)) =>
      /\ m[p].out = "NO CHANGE"
      /\ marker = obs[p].marker0

C2_Witness ==
  \E p \in Procs :
    /\ m[p].pc = "done" /\ AfterSuccessfulRun(p) /\ SameAsPreviousRun(p)
    /\ m[p].out = "NO CHANGE"
    /\ marker.kind = "text"

\* C3: a successful run that comes right after a successful run and derives
\* a filing date other than the stored one prints CHANGED, writes CHANGED.txt
\* with the previously stored date and the current date, and leaves the
\* current date in the state record.
C3_DifferentDateIsChanged ==
  \A p \in Procs :
    (/\ m[p].pc = "done" /\ AfterSuccessfulRun(p)
     /\ m[p].filing_date # Get(Elliott(obs[p].saved0), "filing_date", NoneV)) =>
      /\ m[p].out = "CHANGED"
      /\ marker.kind = "text"
      /\ marker.data.previous_date = Get(Elliott(obs[p].saved0), "filing_date", NoneV)
      /\ marker.data.current_date = m[p].filing_date
      /\ stateFile.kind = "json"
      /\ Get(Elliott(stateFile.data), "filing_date", NoneV) = m[p].filing_date

C3_Witness ==
  \E p \in Procs :
    /\ m[p].pc = "done" /\ AfterSuccessfulRun(p)
    /\ Get(Elliott(obs[p].saved0), "filing_date", NoneV) = "01/15/2024"
    /\ m[p].filing_date = "02/20/2024"
    /\ m[p].flng_pk = Get(Elliott(obs[p].saved0), "flng_pk", NoneV)
    /\ m[p].out = "CHANGED"

\* C4: the status of a finished run is the three-way function of the record
\* it found and what it derived: baseline when the record has no date, else
\* CHANGED exactly when the date or the filing identifier differs from the
\* stored one (a stored record without flng_pk differs), else NO CHANGE.
C4_ThreeWayClassification ==
  \A p \in Procs :
    m[p].pc = "done" =>
      LET rec == Elliott(load_state(obs[p].file0).value)
          stored_date == Get(rec, "filing_date", NoneV)
          stored_flng == Get(rec, "flng_pk", NoneV)
      IN /\ m[p].out \in StatusLines
         /\ (m[p].out = BaselineLine) <=> (stored_date = NoneV)
         /\ (m[p].out = "CHANGED") <=>
              /\ stored_date # NoneV
              /\ (m[p].filing_date # stored_date \/ m[p].flng_pk # stored_flng)

C4_Witness ==
  \E p \in Procs :
    /\ m[p].pc = "done"
    /\ Get(Elliott(obs[p].file0.data), "filing_date", NoneV) = m[p].filing_date
    /\ Get(Elliott(obs[p].file0.data), "flng_pk", NoneV) \in Flngs \ {m[p].flng_pk}
    /\ m[p].out = "CHANGED"

\* C5 (as claimed): a run that aborts leaves the state file and CHANGED.txt
\* exactly as it found them and has printed no status line.
C5_ErrorsLeaveNoTrace ==
  \A p \in Procs :
    m[p].pc = "aborted" =>
      /\ stateFile = obs[p].file0
      /\ marker = obs[p].marker0
      /\ m[p].out = NoneV

\* C6 (as claimed): loading the state store never aborts a run.
C6_LoadNeverAborts ==
  \A p \in Procs : m[p].pc = "aborted" => m[p].err # "JSONDecodeError"

\* the state file holds no entity record: no file, a file with nothing in it,
\* or a mapping without "elliott"
RecordAbsent(f) ==
  \/ f.kind \in {"missing", "empty"}
  \/ f.kind = "json" /\ "elliott" \notin DOMAIN f.data

\* C7: the persisted entity record is absent or complete: all eight keys, a
\* date and identifiers that are not null, and a timestamp of some run so
\* far; right after a run's save it holds exactly that run's values and
\* timestamp; and a run that derived no date has not written the state file.
C7_RecordAbsentOrComplete ==
  /\ \/ RecordAbsent(stateFile)
     \/ /\ stateFile.kind = "json"
        /\ DOMAIN Elliott(stateFile.data) = RecordKeys
        /\ Elliott(stateFile.data).filing_date \in Dates
        /\ Elliott(stateFile.data).flng_pk \in Flngs
        /\ Elliott(stateFile.data).org_pk # NoneV
        /\ Elliott(stateFile.data).last_checked_utc \in 1..clock
  /\ \A p \in Procs :
       /\ m[p].pc \in {"detect", "done"} =>
            /\ stateFile.kind = "json"
            /\ DOMAIN Elliott(stateFile.data) = RecordKeys
            /\ Elliott(stateFile.data).filing_date = m[p].filing_date
            /\ Elliott(stateFile.data).flng_pk = m[p].flng_pk
            /\ Elliott(stateFile.data).org_pk = m[p].org_pk
            /\ Elliott(stateFile.data).viewform_url_found = m[p].viewform_url
            /\ Elliott(stateFile.data).signature_url_used = m[p].signature_url
            /\ Elliott(stateFile.data).firm_summary_url = FIRM_SUMMARY_URL
            /\ Elliott(stateFile.data).crd = CRD
            /\ Elliott(stateFile.data).last_checked_utc = clock
       /\ (m[p].pc = "aborted" /\ m[p].err \in {"HTTPError", "RuntimeError"}) =>
            /\ stateFile = obs[p].file0
            /\ obs[p].log = <<"read_state">>

C7_Witness ==
  \E p \in Procs :
    /\ m[p].pc = "done" /\ AfterSuccessfulRun(p)
    /\ Elliott(obs[p].saved0).flng_pk # m[p].flng_pk
    /\ Elliott(obs[p].saved0).filing_date # m[p].filing_date
    /\ Elliott(stateFile.data).flng_pk = m[p].flng_pk
    /\ Elliott(stateFile.data).filing_date = m[p].filing_date

\* how many times op occurs in a log
Count(log, op) == Cardinality({i \in DOMAIN log : log[i] = op})

NoSaveInProgress == \A p \in Procs : m[p].pc # "save_write"

NoRunInProgress == \A p \in Procs : m[p].pc \in {"idle", "load", "discover", "scrape", "done", "aborted"}

\* C10: between runs, when no file write has failed, an existing CHANGED.txt
\* names as current the date and identifier of the state record, and as
\* previous those of the record that the run which wrote it had found; the
\* marker is written only after the state file; a run whose marker write
\* failed has left its date and identifier in the state file, and a
\* successful run right after it that derives the same values prints
\* NO CHANGE.
C10_MarkerAgreesWithState ==
  /\ (~wfail /\ NoRunInProgress /\ marker.kind = "text") =>
       /\ stateFile.kind = "json"
       /\ marker.data.current_date = Get(Elliott(stateFile.data), "filing_date", NoneV)
       /\ marker.data.current_flng_pk = Get(Elliott(stateFile.data), "flng_pk", NoneV)
       /\ marker.data.previous_date = Get(beforeChanged, "filing_date", NoneV)
       /\ marker.data.previous_flng_pk = Get(beforeChanged, "flng_pk", NoneV)
  /\ \A p \in Procs :
       /\ \A i \in DOMAIN obs[p].log :
            obs[p].log[i] = "write_marker" =>
              \E j \in 1..(i - 1) : obs[p].log[j] = "write_state"
       /\ (m[p].pc = "aborted" /\ m[p].err = "OSError in CHANGED.txt") =>
            /\ stateFile.kind = "json"
            /\ Elliott(stateFile.data).filing_date = m[p].filing_date
            /\ Elliott(stateFile.data).flng_pk = m[p].flng_pk
       /\ (/\ m[p].pc = "done" /\ last.err = "OSError in CHANGED.txt"
           /\ SameAsPreviousRun(p)) =>
            m[p].out = "NO CHANGE"

C10_Witness ==
  \E p \in Procs :
    /\ m[p].pc = "done" /\ last.err = "OSError in CHANGED.txt"
    /\ SameAsPreviousRun(p)
    /\ m[p].out = "NO CHANGE"
    /\ marker.kind \in {"missing", "empty"}

====
